---- MODULE Spec2Model ----
(***************************************************************************)
(* A model of vrb's Geometry node and the VertexArray it draws from:       *)
(* src/src/Geometry.cpp and src/src/VertexArray.cpp.                       *)
(*                                                                         *)
(* Vectors are integer triples.  All positions lie in the plane z = 0, so  *)
(* every face normal is a multiple of the z axis and Normalize is exact.   *)
(* Indices are 0-based in the code; TLA+ sequences are 1-based, so the     *)
(* element the code calls s[i] is s[i + 1] here.                           *)
(***************************************************************************)
EXTENDS Integers, Sequences, FiniteSets, TLC

VARIABLES
  renderState,     \* Geometry::State::renderState: Null, or the texture of the attached RenderState
  vertexArray,     \* Geometry::State::vertexArray: Null or "va"
  faces,           \* Geometry::State::faces
  vertexCount,     \* Geometry::State::vertexCount
  triangleCount,   \* Geometry::State::triangleCount
  vertexObjectId,  \* Geometry::State::vertexObjectId
  indexObjectId,   \* Geometry::State::indexObjectId
  vertices,        \* VertexArray::State::vertices
  normals,         \* VertexArray::State::normals
  uvs,             \* VertexArray::State::uvs
  colors,          \* VertexArray::State::colors
  glBuffers,       \* the GL context: buffer names generated and not deleted (1..glBuffers)
  bufferData,      \* the GL context: bytes of the data stores of the object's two buffers
  lastCall,        \* the last call made and what it did (history)
  crashed          \* the process has faulted

vars == <<renderState, vertexArray, faces, vertexCount, triangleCount,
          vertexObjectId, indexObjectId, vertices, normals, uvs, colors,
          glBuffers, bufferData, lastCall, crashed>>

geometryVars == <<renderState, vertexArray, faces, vertexCount, triangleCount,
                  vertexObjectId, indexObjectId, glBuffers, bufferData>>

pools == <<vertices, normals, uvs, colors>>

---------------------------------------------------------------------------
(* Bounds of the model *)

MaxPool == 2        \* entries a pool of the VertexArray may hold
MaxFaces == 2       \* faces AddFace may store
MaxInits == 1       \* calls of InitializeGL
MaxCount == 2       \* contributions one normal slot may accumulate
MaxEntries == 3     \* entries the four pools hold together, when all four are exercised

---------------------------------------------------------------------------
(* Values *)

Null == "null"

cZeroVector == <<0, 0, 0>>

cZeroColor == <<0, 0, 0, 0>>

\* What a read outside an object yields when the process does not fault: a
\* value no pool of the model holds.
WildVector == <<9, 9, 9>>

WildColor == <<9, 9, 9, 9>>

\* The UV of a corner written without one.
NoUV == <<>>

Points == {<<1, 0, 0>>, <<0, 1, 0>>}

UVPoints == {<<1, 1, 0>>}

\* What a read past the end of an index list may yield: an index inside the
\* pools and one outside them.
GarbageInts == {1, 3}

Colors == {<<1, 1, 1, 1>>}

NormalInputs == {<<0, 0, 1>>, <<0, 0, -1>>}

Sgn(x) == IF x > 0 THEN 1 ELSE IF x < 0 THEN -1 ELSE 0

Sub(a, b) == <<a[1] - b[1], a[2] - b[2], a[3] - b[3]>>

Plus(a, b) == <<a[1] + b[1], a[2] + b[2], a[3] + b[3]>>

Scale(a, k) == <<a[1] * k, a[2] * k, a[3] * k>>

Cross(a, b) == <<a[2] * b[3] - a[3] * b[2],
                 a[3] * b[1] - a[1] * b[3],
                 a[1] * b[2] - a[2] * b[1]>>

\* Exact for a vector along one axis, which is all the model normalizes.
Normalize(v) == <<Sgn(v[1]), Sgn(v[2]), Sgn(v[3])>>

IsZero(v) == v = cZeroVector

---------------------------------------------------------------------------
(* VertexArray *)

\* NormalState(): count(0.0f);  NormalState(aNormal): count(1.0f)
NormalStateDefault == [normal |-> cZeroVector, count |-> 0]

NormalStateOf(aNormal) == [normal |-> aNormal, count |-> 1]

\* `aIndex >= container.size()`: aIndex is an int and size() a size_t, so the
\* comparison is unsigned; a negative aIndex converts to a value above any size.
IndexBeyond(aIndex, size) == aIndex < 0 \/ aIndex >= size

\* container[aIndex] without a bounds check: wild is what a read outside
\* the container yields.
At(container, aIndex, wild) ==
  IF aIndex + 1 \in DOMAIN container THEN container[aIndex + 1] ELSE wild

\* std::vector::resize(n) for n >= size: default-filled growth.
Grow(container, n, fill) ==
  [i \in 1..n |-> IF i <= Len(container) THEN container[i] ELSE fill]

\* The signed comparison a port of the getters could fall into.
GetSigned(container, aIndex, zero, wild) ==
  IF aIndex >= Len(container)
    THEN [value |-> zero, read |-> FALSE]
    ELSE [value |-> At(container, aIndex, wild), read |-> TRUE]

\* The body the four getters share: the sentinel beyond the extent, the
\* element otherwise.
Get(container, aIndex, zero, wild) ==
  IF IndexBeyond(aIndex, Len(container))
    THEN [value |-> zero, read |-> FALSE]
    ELSE [value |-> At(container, aIndex, wild), read |-> TRUE]

GetVertexOf(vs, aIndex) == Get(vs, aIndex, cZeroVector, WildVector)

GetNormalOf(ns, aIndex) ==
  LET r == Get(ns, aIndex, NormalStateDefault, [normal |-> WildVector, count |-> 0])
  IN IF r.read THEN [value |-> r.value.normal, read |-> TRUE]
               ELSE [value |-> cZeroVector, read |-> FALSE]

GetUVOf(us, aIndex) == Get(us, aIndex, cZeroVector, WildVector)

GetColorOf(cs, aIndex) == Get(cs, aIndex, cZeroColor, WildColor)

SetNormalCountOf(ns, aCount) ==
  IF Len(ns) < aCount THEN Grow(ns, aCount, NormalStateDefault) ELSE ns

SetAt(container, aIndex, value, fill) ==
  LET grown == IF Len(container) < aIndex + 1
                 THEN Grow(container, aIndex + 1, fill) ELSE container
  IN [grown EXCEPT ![aIndex + 1] = value]

AddNormalOf(ns, aIndex, aNormal) ==
  LET grown == IF Len(ns) < aIndex + 1
                 THEN Grow(ns, aIndex + 1, NormalStateDefault) ELSE ns
      old == grown[aIndex + 1]
      \* normalize((normal * originalCount + aNormal) / count): the division
      \* by the positive count does not change the direction.
      new == [normal |-> Normalize(Plus(Scale(old.normal, old.count), aNormal)),
              count |-> old.count + 1]
  IN [grown EXCEPT ![aIndex + 1] = new]

Call(op) == [op |-> op]

AppendVertex(aPoint) ==
  /\ ~crashed /\ Len(vertices) < MaxPool
  /\ vertices' = Append(vertices, aPoint)
  /\ lastCall' = Call("AppendVertex")
  /\ UNCHANGED <<normals, uvs, colors, geometryVars, crashed>>

AppendNormal(aNormal) ==
  /\ ~crashed /\ Len(normals) < MaxPool
  /\ normals' = Append(normals, NormalStateOf(aNormal))
  /\ lastCall' = Call("AppendNormal")
  /\ UNCHANGED <<vertices, uvs, colors, geometryVars, crashed>>

AppendUV(aUV) ==
  /\ ~crashed /\ Len(uvs) < MaxPool
  /\ uvs' = Append(uvs, aUV)
  /\ lastCall' = Call("AppendUV")
  /\ UNCHANGED <<vertices, normals, colors, geometryVars, crashed>>

AppendColor(aColor) ==
  /\ ~crashed /\ Len(colors) < MaxPool
  /\ colors' = Append(colors, aColor)
  /\ lastCall' = Call("AppendColor")
  /\ UNCHANGED <<vertices, normals, uvs, geometryVars, crashed>>

SetVertex(aIndex, aPoint) ==
  /\ ~crashed
  /\ vertices' = SetAt(vertices, aIndex, aPoint, cZeroVector)
  /\ lastCall' = Call("SetVertex")
  /\ UNCHANGED <<normals, uvs, colors, geometryVars, crashed>>

\* m.normals[aIndex] = aNormal converts through NormalState(const Vector&).
SetNormal(aIndex, aNormal) ==
  /\ ~crashed
  /\ normals' = SetAt(normals, aIndex, NormalStateOf(aNormal), NormalStateDefault)
  /\ lastCall' = Call("SetNormal")
  /\ UNCHANGED <<vertices, uvs, colors, geometryVars, crashed>>

SetUV(aIndex, aUV) ==
  /\ ~crashed
  /\ uvs' = SetAt(uvs, aIndex, aUV, cZeroVector)
  /\ lastCall' = Call("SetUV")
  /\ UNCHANGED <<vertices, normals, colors, geometryVars, crashed>>

SetColor(aIndex, aColor) ==
  /\ ~crashed
  /\ colors' = SetAt(colors, aIndex, aColor, cZeroColor)
  /\ lastCall' = Call("SetColor")
  /\ UNCHANGED <<vertices, normals, uvs, geometryVars, crashed>>

SetNormalCount(aCount) ==
  /\ ~crashed
  /\ normals' = SetNormalCountOf(normals, aCount)
  /\ lastCall' = Call("SetNormalCount")
  /\ UNCHANGED <<vertices, uvs, colors, geometryVars, crashed>>

\* The accumulation count is a float that only grows: capped for the model.
CountAt(ns, aIndex) == IF aIndex + 1 \in DOMAIN ns THEN ns[aIndex + 1].count ELSE 0

AddNormal(aIndex, aNormal) ==
  /\ ~crashed /\ CountAt(normals, aIndex) < MaxCount
  /\ normals' = AddNormalOf(normals, aIndex, aNormal)
  /\ lastCall' = Call("AddNormal")
  /\ UNCHANGED <<vertices, uvs, colors, geometryVars, crashed>>

Got(op, aIndex, r) ==
  [op |-> op, index |-> aIndex, value |-> r.value, read |-> r.read]

GetVertex(aIndex) ==
  /\ ~crashed
  /\ lastCall' = Got("GetVertex", aIndex, GetVertexOf(vertices, aIndex))
  /\ UNCHANGED <<pools, geometryVars, crashed>>

GetNormal(aIndex) ==
  /\ ~crashed
  /\ lastCall' = Got("GetNormal", aIndex, GetNormalOf(normals, aIndex))
  /\ UNCHANGED <<pools, geometryVars, crashed>>

GetUV(aIndex) ==
  /\ ~crashed
  /\ lastCall' = Got("GetUV", aIndex, GetUVOf(uvs, aIndex))
  /\ UNCHANGED <<pools, geometryVars, crashed>>

GetColor(aIndex) ==
  /\ ~crashed
  /\ lastCall' = Got("GetColor", aIndex, GetColorOf(colors, aIndex))
  /\ UNCHANGED <<pools, geometryVars, crashed>>

---------------------------------------------------------------------------
(* Geometry: the render state it reads *)

\* A RenderState is modelled by its texture: none, a 2D texture or a cube map.
TextureKinds == {"none", "2d", "cube"}

FloatSize == 4

UShortSize == 2

GLushortMax == 65535

\* static_cast<GLushort>(value)
ToGLushort(value) == value % (GLushortMax + 1)

\* RenderState::HasTexture(): whether a texture is set.
HasTexture(rs) == rs # "none"

\* The cube-map case forgotten.
UVLengthFlat(rs) == IF rs = "none" THEN 0 ELSE 2

UVLength(rs) == IF rs = "none" THEN 0 ELSE IF rs = "cube" THEN 3 ELSE 2

UVSize(rs) == UVLength(rs) * FloatSize

PositionSize == 3 * FloatSize

NormalSize == 3 * FloatSize

VertexSize(rs) == PositionSize + NormalSize + UVSize(rs)

---------------------------------------------------------------------------
(* Geometry::AddFace *)

CopyIndecies(aSource) == [i \in 1..Len(aSource) |-> ToGLushort(aSource[i])]

\* list[k] without a bounds check: g is what a read past the end yields.
IdxAt(list, k, g) == IF k + 1 \in DOMAIN list THEN list[k + 1] ELSE g

Past(list, k) == k + 1 \notin DOMAIN list

\* The flat normal of the derived-normal branch, from the first three vertices.
FlatNormal(vs, aVertices, g) ==
  LET point == GetVertexOf(vs, IdxAt(aVertices, 0, g) - 1).value
      p1 == GetVertexOf(vs, IdxAt(aVertices, 1, g) - 1).value
      p2 == GetVertexOf(vs, IdxAt(aVertices, 2, g) - 1).value
  IN Normalize(Cross(Sub(p1, point), Sub(p2, point)))

\* for (GLuint index: face.vertices) { if (Magnitude > 0.00001f) AddNormal(index - 1, normal); }
RECURSIVE Accumulate(_, _, _, _)
Accumulate(ns, indices, k, normal) ==
  IF k > Len(indices) THEN ns
  ELSE Accumulate(IF IsZero(normal) THEN ns
                  ELSE AddNormalOf(ns, indices[k] - 1, normal),
                  indices, k + 1, normal)

DerivedNormals(vs, ns, aVertices, g) ==
  LET sized == SetNormalCountOf(ns, Len(vs))
      normal == FlatNormal(vs, aVertices, g)
      appended == Append(sized, NormalStateOf(normal))
  IN Accumulate(appended, CopyIndecies(aVertices), 1, normal)

AddFace(aVertices, aUVs, aNormals) ==
  /\ ~crashed /\ Len(faces) < MaxFaces
  /\ vertexCount' = vertexCount + Len(aVertices)
  /\ triangleCount' = triangleCount + (Len(aVertices) - 2)
  /\ LET face == [vertices |-> CopyIndecies(aVertices),
                  uvs |-> IF Len(aUVs) > 0 THEN CopyIndecies(aUVs) ELSE <<>>,
                  normals |-> <<>>]
         logged == Len(face.vertices) < 3
         call == [op |-> "AddFace", aVertices |-> aVertices, aUVs |-> aUVs,
                  aNormals |-> aNormals, logged |-> logged,
                  faceCountBefore |-> Len(faces)]
     IN IF Len(aNormals) > 0 /\ aNormals[1] # 0
          THEN /\ faces' = Append(faces, [face EXCEPT !.normals = CopyIndecies(aNormals)])
               /\ lastCall' = call
               /\ UNCHANGED <<normals, crashed>>
        ELSE IF vertexArray = Null
          THEN /\ faces' = Append(faces, face)
               /\ lastCall' = call
               /\ UNCHANGED <<normals, crashed>>
        ELSE IF Len(aVertices) >= 3
          THEN /\ normals' = DerivedNormals(vertices, normals, aVertices, 0)
               /\ faces' = Append(faces, [face EXCEPT !.normals = face.vertices])
               /\ lastCall' = call
               /\ UNCHANGED crashed
        \* aVertices[1] or aVertices[2] is read past the end of the argument:
        \* the process faults there, or goes on with whatever the read gave.
        ELSE \/ /\ crashed' = TRUE
                /\ normals' = SetNormalCountOf(normals, Len(vertices))
                /\ lastCall' = call
                /\ UNCHANGED faces
             \/ \E g \in GarbageInts :
                /\ normals' = DerivedNormals(vertices, normals, aVertices, g)
                /\ faces' = Append(faces, [face EXCEPT !.normals = face.vertices])
                /\ lastCall' = call
                /\ UNCHANGED crashed
  /\ UNCHANGED <<renderState, vertexArray, vertexObjectId, indexObjectId,
                 vertices, uvs, colors, glBuffers, bufferData>>

GetFaceCount == Len(faces)

---------------------------------------------------------------------------
(* Geometry::UpdateBuffers *)

\* What one run reads: the texture the render state reports, the vertex array
\* (va = FALSE: a null pointer is dereferenced) and g, what reads past the end
\* of an index list yield.
Reads(rs, g) == [useTex |-> HasTexture(rs), uvSize |-> UVSize(rs),
                 va |-> vertexArray # Null, g |-> g]

Fetch(ctx, r) == IF ctx.va THEN r.value ELSE WildVector

\* The anchor corner: its three indices are narrowed to GLushort first.
FirstCorner(ctx, face) ==
  LET vertexIndex == ToGLushort(IdxAt(face.vertices, 0, ctx.g) - 1)
      normalIndex == ToGLushort(IdxAt(face.normals, 0, ctx.g) - 1)
      uvIndex == ToGLushort(IF ctx.useTex THEN IdxAt(face.uvs, 0, ctx.g) - 1 ELSE -1)
  IN [at |-> 0,
      pos |-> Fetch(ctx, GetVertexOf(vertices, vertexIndex)),
      nrm |-> Fetch(ctx, GetNormalOf(normals, normalIndex)),
      uv |-> IF ctx.useTex THEN Fetch(ctx, GetUVOf(uvs, uvIndex)) ELSE NoUV,
      bytes |-> PositionSize + PositionSize + (IF ctx.useTex THEN ctx.uvSize ELSE 0),
      past |-> Past(face.normals, 0) \/ (ctx.useTex /\ Past(face.uvs, 0))]

OtherCorner(ctx, face, k) ==
  [at |-> k,
   pos |-> Fetch(ctx, GetVertexOf(vertices, IdxAt(face.vertices, k, ctx.g) - 1)),
   nrm |-> Fetch(ctx, GetNormalOf(normals, IdxAt(face.normals, k, ctx.g) - 1)),
   uv |-> IF ctx.useTex
            THEN Fetch(ctx, GetUVOf(uvs, IdxAt(face.uvs, k, ctx.g) - 1))
            ELSE NoUV,
   bytes |-> PositionSize + PositionSize + (IF ctx.useTex THEN ctx.uvSize ELSE 0),
   past |-> Past(face.normals, k) \/ (ctx.useTex /\ Past(face.uvs, k))]

\* for (int ix = 1; ix <= face.vertices.size() - 2; ix++)
RECURSIVE FanTriangles(_, _, _, _)
FanTriangles(ctx, f, face, ix) ==
  IF ix > Len(face.vertices) - 2 THEN <<>>
  ELSE <<[face |-> f,
          corners |-> <<FirstCorner(ctx, face), OtherCorner(ctx, face, ix),
                        OtherCorner(ctx, face, ix + 1)>>]>>
       \o FanTriangles(ctx, f, face, ix + 1)

\* for (auto& face: m.faces): an empty face ends the loop (break), a face of
\* one or two vertices is passed over (continue).
RECURSIVE EmitFaces(_, _, _)
EmitFaces(ctx, fs, f) ==
  IF f > Len(fs) THEN <<>>
  ELSE IF Len(fs[f].vertices) = 0 THEN <<>>
  ELSE IF Len(fs[f].vertices) < 3 THEN EmitFaces(ctx, fs, f + 1)
  ELSE FanTriangles(ctx, f, fs[f], 1) \o EmitFaces(ctx, fs, f + 1)

RECURSIVE SumBytes(_, _)
SumBytes(tris, i) ==
  IF i > Len(tris) THEN 0
  ELSE tris[i].corners[1].bytes + tris[i].corners[2].bytes
       + tris[i].corners[3].bytes + SumBytes(tris, i + 1)

\* GLushort count: pushed and incremented once per corner.
IndicesOf(tris) == [i \in 1..(3 * Len(tris)) |-> ToGLushort(i - 1)]

UpdateBuffersRun(rs, g) ==
  LET ctx == Reads(rs, g)
      tris == EmitFaces(ctx, faces, 1)
  IN [ran |-> TRUE,
      tris |-> tris,
      indices |-> IndicesOf(tris),
      offset |-> SumBytes(tris, 1),
      indexBytes |-> UShortSize * 3 * Len(tris),
      useTex |-> ctx.useTex,
      \* undefined behaviour met on the way: a null render state or vertex
      \* array dereferenced, an index list read past its end
      nullRenderState |-> renderState = Null,
      nullVertexArray |-> Len(tris) > 0 /\ vertexArray = Null,
      past |-> \E i \in 1..Len(tris) : \E c \in 1..3 : tris[i].corners[c].past]

NotRun == [ran |-> FALSE]

Undefined(run) == run.nullRenderState \/ run.nullVertexArray \/ run.past

\* The texture a call reads through m.renderState: through a null pointer the
\* read yields anything.
TexturesRead == IF renderState = Null THEN TextureKinds ELSE {renderState}

\* Whether a run meets undefined behaviour does not depend on what its wild
\* reads yield.  A run that meets none reads no garbage and cannot fault; one
\* that does may fault, or go on with any of the values a wild read may give.
MeetsUndefined(t) == Undefined(UpdateBuffersRun(t, 1))

GarbageRead(t) == IF MeetsUndefined(t) THEN GarbageInts ELSE {1}

Faults(t) == IF MeetsUndefined(t) THEN BOOLEAN ELSE {FALSE}

UpdateBuffers ==
  /\ ~crashed
  /\ IF vertexObjectId = 0 \/ indexObjectId = 0
       THEN /\ lastCall' = [op |-> "UpdateBuffers", run |-> NotRun]
            /\ UNCHANGED crashed
       ELSE \E t \in TexturesRead : \E g \in GarbageRead(t), fault \in Faults(t) :
              /\ crashed' = fault
              /\ lastCall' = [op |-> "UpdateBuffers", run |-> UpdateBuffersRun(t, g)]
  /\ UNCHANGED <<geometryVars, pools>>

---------------------------------------------------------------------------
(* Geometry::InitializeGL, ShutdownGL, Draw and the setters *)

\* The buffers of a Geometry that never ran InitializeGL have no data store.
NoData == [arrayBuffer |-> 0, elementArrayBuffer |-> 0]

\* glBufferData on a freshly generated buffer: the store gets the size asked
\* for; a negative size is refused and the buffer keeps its empty store.
DataStore(size) == IF size < 0 THEN 0 ELSE size

InitializeGL ==
  /\ ~crashed /\ glBuffers < 2 * MaxInits
  \* glGenBuffers returns names not in use
  /\ LET vertexName == glBuffers + 1
         indexName == glBuffers + 2
         call == [op |-> "InitializeGL", hadRenderState |-> renderState # Null,
                  logged |-> renderState = Null,
                  wasEmpty |-> vertexObjectId = 0 /\ indexObjectId = 0,
                  generatedBefore |-> glBuffers]
     IN \/ \* m.VertexSize() dereferences the null render state and faults
           /\ renderState = Null
           /\ vertexObjectId' = vertexName
           /\ glBuffers' = glBuffers + 1
           /\ crashed' = TRUE
           /\ lastCall' = call @@ [run |-> NotRun]
           /\ UNCHANGED <<indexObjectId, bufferData>>
        \/ \E t \in TexturesRead : \E g \in GarbageRead(t), fault \in Faults(t) :
             LET kTriangleSize == VertexSize(t) * 3
                 run == UpdateBuffersRun(t, g)
                 sized == [arrayBuffer |-> kTriangleSize * triangleCount,
                           elementArrayBuffer |-> UShortSize * triangleCount * 3]
             IN /\ vertexObjectId' = vertexName
                /\ indexObjectId' = indexName
                /\ glBuffers' = glBuffers + 2
                /\ bufferData' = [arrayBuffer |-> DataStore(sized.arrayBuffer),
                                  elementArrayBuffer |-> DataStore(sized.elementArrayBuffer)]
                /\ crashed' = fault
                /\ lastCall' = call @@ [run |-> run, sized |-> sized]
  /\ UNCHANGED <<renderState, vertexArray, faces, vertexCount, triangleCount, pools>>

\* The body is empty.  The history notes whether the call follows an
\* InitializeGL that had its render state.
ShutdownGL ==
  /\ ~crashed
  /\ lastCall' = [op |-> "ShutdownGL",
                  afterInit |-> lastCall.op = "InitializeGL" /\ lastCall.hadRenderState]
  /\ UNCHANGED <<geometryVars, pools, crashed>>

Draw ==
  /\ ~crashed
  /\ \/ \* m.renderState->Enable(...) through a null pointer faults
        /\ renderState = Null
        /\ crashed' = TRUE
        /\ lastCall' = [op |-> "Draw", issued |-> FALSE]
     \/ \E t \in TexturesRead, enabled \in BOOLEAN :
          /\ crashed' = FALSE
          /\ lastCall' =
               IF enabled
                 THEN [op |-> "Draw", issued |-> TRUE,
                       arrayBuffer |-> vertexObjectId,
                       elementArrayBuffer |-> indexObjectId,
                       stride |-> VertexSize(t),
                       positionOffset |-> 0,
                       normalOffset |-> PositionSize,
                       uvOffset |-> IF HasTexture(t) THEN PositionSize + NormalSize ELSE -1,
                       uvLength |-> IF HasTexture(t) THEN UVLength(t) ELSE 0,
                       count |-> triangleCount * 3,
                       texture |-> t]
                 ELSE [op |-> "Draw", issued |-> FALSE]
  /\ UNCHANGED <<geometryVars, pools>>

SetRenderState(aRenderState) ==
  /\ ~crashed
  /\ renderState' = aRenderState
  /\ lastCall' = Call("SetRenderState")
  /\ UNCHANGED <<vertexArray, faces, vertexCount, triangleCount, vertexObjectId,
                 indexObjectId, glBuffers, bufferData, pools, crashed>>

SetVertexArray(aVertexArray) ==
  /\ ~crashed
  /\ vertexArray' = aVertexArray
  /\ lastCall' = Call("SetVertexArray")
  /\ UNCHANGED <<renderState, faces, vertexCount, triangleCount, vertexObjectId,
                 indexObjectId, glBuffers, bufferData, pools, crashed>>

---------------------------------------------------------------------------
(* The state after construction: Geometry::State() and an empty VertexArray *)

Init ==
  /\ renderState = Null
  /\ vertexArray = Null
  /\ faces = <<>>
  /\ vertexCount = 0
  /\ triangleCount = 0
  /\ vertexObjectId = 0
  /\ indexObjectId = 0
  /\ vertices = <<>>
  /\ normals = <<>>
  /\ uvs = <<>>
  /\ colors = <<>>
  /\ glBuffers = 0
  /\ bufferData = NoData
  /\ lastCall = Call("Create")
  /\ crashed = FALSE

\* Indices the VertexArray is written at, and asked for.
SetIndices == 0..(MaxPool - 1)

GetIndices == (-2)..(MaxPool + 1)

TotalEntries == Len(vertices) + Len(normals) + Len(uvs) + Len(colors)

\* The four pools together stay within MaxEntries.
Fits == TotalEntries' <= MaxEntries

NextVA ==
  \/ \E p \in Points : AppendVertex(p) /\ Fits
  \/ \E n \in NormalInputs : AppendNormal(n) /\ Fits
  \/ \E u \in UVPoints : AppendUV(u) /\ Fits
  \/ \E c \in Colors : AppendColor(c) /\ Fits
  \/ \E i \in SetIndices, p \in Points : SetVertex(i, p) /\ Fits
  \/ \E i \in SetIndices, n \in NormalInputs : SetNormal(i, n) /\ Fits
  \/ \E i \in SetIndices, u \in UVPoints : SetUV(i, u) /\ Fits
  \/ \E i \in SetIndices, c \in Colors : SetColor(i, c) /\ Fits
  \/ \E k \in 0..MaxPool : SetNormalCount(k) /\ Fits
  \/ \E i \in SetIndices, n \in NormalInputs : AddNormal(i, n) /\ Fits
  \/ \E i \in GetIndices : GetVertex(i) /\ Fits
  \/ \E i \in GetIndices : GetNormal(i) /\ Fits
  \/ \E i \in GetIndices : GetUV(i) /\ Fits
  \/ \E i \in GetIndices : GetColor(i) /\ Fits

SpecVA == Init /\ [][NextVA]_vars

---------------------------------------------------------------------------
(* A Geometry fed by a loader and driven by the render thread *)

Prefix(n) == [i \in 1..n |-> i]

\* The vertices a loader appends, in file order.
NextPoint == IF Len(vertices) % 2 = 0 THEN <<1, 0, 0>> ELSE <<0, 1, 0>>

\* Faces as a loader passes them: <<aVertices, aUVs, aNormals>>.
WellFormedFaces ==
  {<<Prefix(3), Prefix(3), Prefix(3)>>,     \* a triangle with uvs and normals
   <<Prefix(4), <<>>, <<>>>>}               \* a quad, normals to derive

ShortFaces ==
  {<<<<>>, <<>>, <<1>>>>,                    \* no vertex
   <<<<1>>, <<>>, <<>>>>,                    \* one vertex, normals to derive
   <<<<1, 2>>, <<>>, <<1, 2>>>>}             \* two vertices

UnevenFaces ==
  {<<Prefix(3), <<>>, <<1>>>>,               \* one normal for three vertices
   <<Prefix(3), <<1>>, <<0, 0, 0>>>>}        \* one uv; the "no normal" sentinel

FaceArgs == WellFormedFaces \cup ShortFaces \cup UnevenFaces

Next ==
  \/ AppendVertex(NextPoint)
  \/ \E a \in FaceArgs : AddFace(a[1], a[2], a[3])
  \/ \E rs \in TextureKinds \cup {Null} : SetRenderState(rs)
  \/ \E va \in {Null, "va"} : SetVertexArray(va)
  \/ InitializeGL
  \/ UpdateBuffers
  \/ Draw
  \/ ShutdownGL

Spec == Init /\ [][Next]_vars

\* The byte layout depends neither on how a face is formed nor on what the
\* pools hold: well-formed faces over an empty VertexArray, every render state.
NextLayout ==
  \/ \E a \in WellFormedFaces : AddFace(a[1], a[2], a[3])
  \/ \E rs \in TextureKinds \cup {Null} : SetRenderState(rs)
  \/ \E va \in {Null, "va"} : SetVertexArray(va)
  \/ InitializeGL
  \/ UpdateBuffers
  \/ Draw

SpecLayout == Init /\ [][NextLayout]_vars

\* The calls of a client that attaches its render state once, before it
\* creates the buffers, and then adds faces, creates the buffers and
\* re-uploads in any order.
NextResync ==
  \/ \E t \in TextureKinds : renderState = Null /\ SetRenderState(t)
  \/ SetVertexArray("va")
  \/ \E a \in WellFormedFaces \cup ShortFaces : AddFace(a[1], a[2], a[3])
  \/ renderState # Null /\ InitializeGL
  \/ renderState # Null /\ UpdateBuffers

SpecResync == Init /\ [][NextResync]_vars

---------------------------------------------------------------------------
(* Properties *)

\* The UpdateBuffers run of the last call, if it was one that runs it.
RanUpdate == lastCall.op \in {"UpdateBuffers", "InitializeGL"} /\ lastCall.run.ran

Max0(x) == IF x > 0 THEN x ELSE 0

\* Triangles a fan makes of the stored faces of three vertices or more.
RECURSIVE FanCount(_, _)
FanCount(fs, f) ==
  IF f > Len(fs) THEN 0
  ELSE (IF Len(fs[f].vertices) >= 3 THEN Len(fs[f].vertices) - 2 ELSE 0)
       + FanCount(fs, f + 1)

\* <<face, corner, corner, corner>> of every triangle the fans are made of.
RECURSIVE ExpectedFan(_, _, _)
ExpectedFan(fs, f, i) ==
  IF f > Len(fs) THEN <<>>
  ELSE IF Len(fs[f].vertices) < 3 \/ i > Len(fs[f].vertices) - 2
    THEN ExpectedFan(fs, f + 1, 1)
  ELSE <<<<f, 0, i, i + 1>>>> \o ExpectedFan(fs, f, i + 1)

ShapeOf(tris) ==
  [i \in 1..Len(tris) |->
     <<tris[i].face, tris[i].corners[1].at, tris[i].corners[2].at,
       tris[i].corners[3].at>>]

\* C1: an UpdateBuffers run with the buffers allocated emits, face by face,
\* the V-2 fan triangles (0, i, i+1) of every stored face of V >= 3 vertices,
\* and uploads the indices 0, 1, ..., N-1, N = 3 x the number of triangles.
C1_FanOfEveryFace ==
  (RanUpdate /\ ~Undefined(lastCall.run)) =>
     /\ ShapeOf(lastCall.run.tris) = ExpectedFan(faces, 1, 1)
     /\ lastCall.run.indices = [i \in 1..(3 * FanCount(faces, 1)) |-> i - 1]

TrianglesOf(run, f) == Cardinality({i \in 1..Len(run.tris) : run.tris[i].face = f})

\* C2: a stored face of 0, 1 or 2 vertices contributes no triangle, and every
\* face of V >= 3 vertices, before or after it, still contributes its V-2.
C2_ShortFaceSkipped ==
  (RanUpdate /\ ~Undefined(lastCall.run)) =>
     \A f \in 1..Len(faces) :
       TrianglesOf(lastCall.run, f) = Max0(Len(faces[f].vertices) - 2)

\* C3: AddFace with fewer than 3 vertex indices records an error and leaves
\* GetFaceCount() as it was.
C3_ShortFaceNotStored ==
  (lastCall.op = "AddFace" /\ Len(lastCall.aVertices) < 3) =>
     lastCall.logged /\ GetFaceCount = lastCall.faceCountBefore

RECURSIVE SumTriangles(_, _)
SumTriangles(fs, f) ==
  IF f > Len(fs) THEN 0
  ELSE Max0(Len(fs[f].vertices) - 2) + SumTriangles(fs, f + 1)

\* C4: triangleCount is the sum of max(0, vertexCount - 2) over the faces
\* passed to AddFace, never negative, and a third of the indices emitted.
C4_TriangleCount ==
  ~crashed =>
     /\ triangleCount = SumTriangles(faces, 1)
     /\ triangleCount >= 0
     /\ RanUpdate => Len(lastCall.run.indices) = 3 * triangleCount

StrideOf(t) == CASE t = "none" -> 24 [] t = "2d" -> 32 [] t = "cube" -> 36

\* C5: the stride is 24 bytes without a texture, 32 with a 2D texture, 36 with
\* a cube map; every corner UpdateBuffers writes takes exactly the stride, with
\* a UV only when a texture is set; Draw lays the attributes out to match
\* (normal at 12, UV at 24).
C5_StrideMatchesWrites ==
  (renderState # Null /\ ~crashed) =>
     /\ VertexSize(renderState) = StrideOf(renderState)
     /\ RanUpdate =>
          /\ lastCall.run.offset = StrideOf(renderState) * Len(lastCall.run.indices)
          /\ \A i \in 1..Len(lastCall.run.tris) : \A c \in 1..3 :
               LET corner == lastCall.run.tris[i].corners[c]
               IN /\ corner.bytes = StrideOf(renderState)
                  /\ (corner.uv = NoUV) <=> (renderState = "none")
     /\ (lastCall.op = "Draw" /\ lastCall.issued) =>
          /\ lastCall.stride = StrideOf(renderState)
          /\ lastCall.positionOffset = 0
          /\ lastCall.normalOffset = 12
          /\ IF renderState = "none"
               THEN lastCall.uvLength = 0 /\ lastCall.uvOffset = -1
               ELSE /\ lastCall.uvOffset = 24
                    /\ 24 + lastCall.uvLength * 4 = StrideOf(renderState)

\* Two triangles written, UVs included, with a cube map bound.
C5_Witness ==
  /\ renderState = "cube" /\ ~crashed
  /\ lastCall.op = "UpdateBuffers" /\ lastCall.run.ran
  /\ ~Undefined(lastCall.run)
  /\ Len(lastCall.run.tris) >= 2

\* C6: InitializeGL without a render state reports the error and stops: no
\* buffer name is generated and the geometry stays Empty.
C6_InitWithoutRenderState ==
  (lastCall.op = "InitializeGL" /\ ~lastCall.hadRenderState /\ lastCall.wasEmpty) =>
     /\ lastCall.logged
     /\ glBuffers = lastCall.generatedBefore
     /\ vertexObjectId = 0 /\ indexObjectId = 0

\* C7: Draw on a geometry whose buffers are not allocated (a render state
\* attached) binds nothing and issues no draw call.
C7_DrawWhileEmpty ==
  (/\ lastCall.op = "Draw"
   /\ renderState # Null
   /\ vertexObjectId = 0 \/ indexObjectId = 0) =>
     ~lastCall.issued

\* C8: after ShutdownGL following a successful InitializeGL both buffers are
\* released and both ids are 0.
C8_ShutdownReleases ==
  (lastCall.op = "ShutdownGL" /\ lastCall.afterInit) =>
     vertexObjectId = 0 /\ indexObjectId = 0 /\ glBuffers = 0

GetOps == {"GetVertex", "GetNormal", "GetUV", "GetColor"}

\* C9: a getter asked for an index outside its pool's extent (at or above the
\* count, or negative) returns the zero sentinel without reading the
\* container; inside the extent it returns the stored value; no pool changes.
C9_GetOutsideExtent ==
  [][lastCall'.op \in GetOps =>
       LET i == lastCall'.index
           pool == CASE lastCall'.op = "GetVertex" -> vertices
                     [] lastCall'.op = "GetNormal" -> normals
                     [] lastCall'.op = "GetUV" -> uvs
                     [] lastCall'.op = "GetColor" -> colors
           zero == IF lastCall'.op = "GetColor" THEN cZeroColor ELSE cZeroVector
       IN /\ UNCHANGED pools
          /\ IF i < 0 \/ i >= Len(pool)
               THEN lastCall'.value = zero /\ ~lastCall'.read
               ELSE /\ lastCall'.read
                    /\ lastCall'.value = IF lastCall'.op = "GetNormal"
                                           THEN pool[i + 1].normal ELSE pool[i + 1]]_vars

\* A negative index asked of a pool that holds a non-zero entry.
C9_Witness ==
  /\ lastCall.op = "GetNormal" /\ lastCall.index < 0
  /\ Len(normals) > 0 /\ normals[1].normal # cZeroVector

\* C10: in every stored face the uv list is empty or as long as the vertex
\* list and the normal list is as long as the vertex list, so UpdateBuffers
\* never reads either list past its end.
C10_FaceListsAgree ==
  /\ \A f \in 1..Len(faces) :
       /\ Len(faces[f].uvs) \in {0, Len(faces[f].vertices)}
       /\ Len(faces[f].normals) = Len(faces[f].vertices)
  /\ RanUpdate => ~lastCall.run.past


\* The step stores a face whose normal AddFace derives itself: the normal
\* list is empty or starts with 0, a vertex array is attached and the face
\* has at least three vertices.
DerivesNormal ==
  /\ lastCall' # lastCall
  /\ lastCall'.op = "AddFace"
  /\ Len(lastCall'.aNormals) = 0 \/ lastCall'.aNormals[1] = 0
  /\ Len(lastCall'.aVertices) >= 3
  /\ vertexArray # Null

\* Corners of the face that name the vertex of a normal slot (slots count from 1).
Occurrences(indices, slot) ==
  Cardinality({k \in DOMAIN indices : indices[k] = slot})

\* Contributions the face makes to a slot: one per corner, none when the
\* flat normal is degenerate.
Contributions(slot) ==
  IF IsZero(FlatNormal(vertices, lastCall'.aVertices, 0)) THEN 0
  ELSE Occurrences(CopyIndecies(lastCall'.aVertices), slot)

\* C11: when AddFace derives the normal of a face with at least three
\* vertices, the stored normal indices equal the stored vertex indices and
\* the normal storage only grows to the vertex count with zero-count entries
\* and takes one accumulation per corner of a non-degenerate face: every
\* slot's count rises by exactly the corners that name its vertex, and no
\* other entry is created or altered.
C11_DerivedNormalFrame ==
  [][DerivesNormal =>
       /\ faces'[Len(faces')].normals = faces'[Len(faces')].vertices
       /\ \A slot \in DOMAIN normals' :
            normals'[slot].count = CountAt(normals, slot - 1) + Contributions(slot)
       /\ \A slot \in DOMAIN normals' :
            \/ slot <= Len(normals)
            \/ slot <= Len(vertices)
            \/ Contributions(slot) > 0]_vars



\* Every stored face has at least three vertices, so triangleCount is the
\* number of triangles the faces fan into.
FacesWellFormed == \A f \in DOMAIN faces : Len(faces[f].vertices) >= 3

\* C12: with a render state attached, every run of UpdateBuffers writes
\* within the data stores the last InitializeGL sized: the vertex data ends
\* at or before the end of the array buffer, and the index data is no longer
\* than the element array buffer, whatever AddFace calls came before or
\* after InitializeGL.  Stated for faces of at least three vertices and for
\* runs that meet no undefined behaviour, which is where the claim is weakest.
C12_WritesWithinAllocation ==
  (RanUpdate /\ renderState # Null /\ ~Undefined(lastCall.run) /\ FacesWellFormed) =>
     /\ lastCall.run.offset <= bufferData.arrayBuffer
     /\ lastCall.run.indexBytes <= bufferData.elementArrayBuffer

====
